---------------------------- MODULE Spec2Model ----------------------------
(***************************************************************************)
(* Model of custom_components/awtrix-screen/sensor.py: one                 *)
(* CustomScreenSensor, the two periodic callbacks that setup_platform      *)
(* registers, and the asyncio event loop's one-shot timers.                *)
(*                                                                         *)
(* Every coroutine is cut at its awaits: an action is the code that runs   *)
(* between two suspension points.  Time is abstracted: a periodic callback *)
(* may fire at any moment, an HTTP request may be answered at any moment,  *)
(* a sleep or a one-shot timer may expire at any moment.                   *)
(***************************************************************************)
EXTENDS Integers, Sequences, FiniteSets, Bags

(***************************************************************************)
(* Bounds of the model.                                                    *)
(***************************************************************************)
\* data polls (async_update coroutines) that may be suspended at once
MaxPolls == 2
\* cap of _error_counter, which the code never bounds
MaxErrors == 4
\* one-shot timers pending in the event loop at once
MaxTimers == 2
\* longest list the device answers with
MaxLen == 1
\* length of the offline frame: 256 in load_screen_data's default, any
\* length when screen_data.json is read
OfflineLen == 3

(***************************************************************************)
(* Program constants.                                                      *)
(***************************************************************************)
\* Python's None, for _state and _offline_delay (both otherwise >= 0)
None == -1
\* the asyncio.TimerHandle that call_later returns; handles are opaque, and
\* the sensor holds at most one, so one value stands for whichever it holds
TimerHandle == 0
\* self._max_errors
_max_errors == 3
\* retries=3, the default of async_http_get_with_retries
retries == 3
\* the colour of the default offline frame
OfflineColor == 16711680

\* pixel values the device may send
Pixels == {255}

(***************************************************************************)
(* json.dumps of a list of non-negative integers: "[1, 2, 3]", as the      *)
(* sequence of its characters.                                             *)
(***************************************************************************)
DigitChars == <<"0", "1", "2", "3", "4", "5", "6", "7", "8", "9">>

RECURSIVE str(_)
str(n) ==
    IF n < 10 THEN <<DigitChars[n + 1]>>
    ELSE str(n \div 10) \o <<DigitChars[(n % 10) + 1]>>

\* ", ".join(str(x) for x in l), computed by halves
RECURSIVE join(_)
join(l) ==
    IF Len(l) = 0 THEN <<>>
    ELSE IF Len(l) = 1 THEN str(l[1])
    ELSE LET m == Len(l) \div 2
         IN  join(SubSeq(l, 1, m)) \o <<",", " ">> \o join(SubSeq(l, m + 1, Len(l)))

json_dumps(l) == <<"[">> \o join(l) \o <<"]">>

\* load_screen_data(): the value returned when screen_data.json is missing
load_screen_data == [offline |-> [i \in 1..OfflineLen |-> OfflineColor]]

ALL_SCREEN_DATA == load_screen_data

\* d[k] = v on a Python dict
SetItem(d, k, v) ==
    [x \in (DOMAIN d) \cup {k} |-> IF x = k THEN v ELSE d[x]]

(***************************************************************************)
(* What the device (or the network) does with one GET.                     *)
(*   exc    : what session.get raises ("" when it returns a response)      *)
(*   status : the response's status                                        *)
(*   json   : what response.json() gives: a value, or the exception it     *)
(*            raises                                                       *)
(***************************************************************************)
Lists == UNION {[1..n -> Pixels] : n \in 0..MaxLen}

JsonValues ==
    {[type |-> "list", value |-> l] : l \in Lists}
        \cup {[type |-> "dict", value |-> <<>>],
              [type |-> "NoneType", value |-> <<>>]}

JsonRaises ==
    {[type |-> "ContentTypeError", value |-> <<>>],
     [type |-> "JSONDecodeError", value |-> <<>>]}

PyNone == [type |-> "NoneType", value |-> <<>>]

Responses ==
    {[exc |-> "", status |-> 200, json |-> j] : j \in JsonValues \cup JsonRaises}
        \cup {[exc |-> "", status |-> 500, json |-> PyNone],
              [exc |-> "ClientError", status |-> 0, json |-> PyNone],
              [exc |-> "TimeoutError", status |-> 0, json |-> PyNone]}

\* the responses that matter to a liveness probe, which never reads the body
ProbeResponses == {r \in Responses : r.json = PyNone}

VARIABLES
    sensor,     \* the CustomScreenSensor's fields
    timers,     \* the call_later timers pending in the event loop
    polls,      \* the suspended async_update coroutines, a bag of stages
    checking,   \* an async_check_online_status probe is in flight
    last,       \* history: what the last step was
    failed,     \* history: data polls that failed since the last that
                \* succeeded, counted up to _max_errors
    call,       \* one call of async_http_get_with_retries, followed alone
    healthy     \* the device answers every GET with 200 and a JSON list

vars == <<sensor, timers, polls, checking, last, failed, call, healthy>>

\* what the sensor's state machine leaves alone
aux == <<call, healthy>>

(***************************************************************************)
(* The event loop's pending one-shot timers, w.loop:                       *)
(*   held : 1 when the timer that self._offline_delay refers to is still   *)
(*          pending, else 0                                                *)
(*   lost : the number of pending timers that no handle of the sensor      *)
(*          refers to any more                                             *)
(* The sensor's methods are functions of w = [self, loop].                 *)
(***************************************************************************)

\* asyncio.get_event_loop().call_later(delay, self.async_check_online),
\* followed by the assignment of the handle to self._offline_delay
call_later(w) ==
    [self |-> [w.self EXCEPT !._offline_delay = TimerHandle],
     loop |-> [held |-> 1, lost |-> w.loop.lost + w.loop.held]]

\* self._offline_delay.cancel(): a no-op on a timer that has fired
cancel(w) == [w EXCEPT !.loop.held = 0]

\* CustomScreenSensor.is_online
is_online(self) == self._online

\* _handle_error with the threshold off by one: offline at _max_errors - 1
_handle_error_early(w) ==
    LET counted == [w EXCEPT !.self._error_counter = @ + 1]
    IN  IF counted.self._error_counter >= _max_errors - 1
        THEN call_later([counted EXCEPT !.self._online = FALSE,
                                        !.self._state = 0])
        ELSE counted

\* CustomScreenSensor._handle_error
_handle_error(w) ==
    LET counted == [w EXCEPT !.self._error_counter = @ + 1]
    IN  IF counted.self._error_counter >= _max_errors
        THEN call_later([counted EXCEPT !.self._online = FALSE,
                                        !.self._state = 0])
        ELSE counted

\* async_update_online_status that never brings the sensor back online
async_update_online_status_stuck(w, online) ==
    IF ~online
    THEN LET counted == [w EXCEPT !.self._error_counter = @ + 1]
         IN  IF counted.self._error_counter >= _max_errors
             THEN call_later([counted EXCEPT !.self._online = FALSE,
                                             !.self._state = 0])
             ELSE counted
    ELSE w

\* CustomScreenSensor.async_update_online_status; it never suspends
async_update_online_status(w, online) ==
    IF ~online
    THEN LET counted == [w EXCEPT !.self._error_counter = @ + 1]
         IN  IF counted.self._error_counter >= _max_errors
             THEN call_later([counted EXCEPT !.self._online = FALSE,
                                             !.self._state = 0])
             ELSE counted
    ELSE IF ~w.self._online
         THEN LET up == [w EXCEPT !.self._online = TRUE,
                                  !.self._state = None]
              IN  IF up.self._offline_delay # None
                  THEN [cancel(up) EXCEPT !.self._offline_delay = None]
                  ELSE up
         ELSE w

\* the offline branch of async_update also zeroing the exposed state
async_update_offline_zero(self) ==
    [self EXCEPT !._state_attributes =
                     SetItem(@, "screen", json_dumps(ALL_SCREEN_DATA.offline)),
                 !._state = 0]

\* async_update, the branch taken while offline (it returns at once)
async_update_offline(self) ==
    [self EXCEPT !._state_attributes =
        SetItem(@, "screen", json_dumps(ALL_SCREEN_DATA.offline))]

\* async_update that forgets to reset the error counter on success
async_update_data_noreset(w, data) ==
    LET handled ==
            IF data # PyNone
            THEN IF data.type = "list"
                 THEN [w EXCEPT !.self =
                         [@ EXCEPT !._state_attributes =
                                       SetItem(@, "screen", json_dumps(data.value)),
                                   !._state = 1]]
                 ELSE _handle_error(w)
            ELSE _handle_error(w)
    IN  [handled EXCEPT !.self._state_attributes =
            SetItem(@, "test", <<"t", "e", "s", "t">>)]

\* async_update once async_http_get_with_retries has returned data
async_update_data(w, data) ==
    LET handled ==
            IF data # PyNone
            THEN IF data.type = "list"
                 THEN [w EXCEPT !.self =
                         [@ EXCEPT !._state_attributes =
                                       SetItem(@, "screen", json_dumps(data.value)),
                                   !._error_counter = 0,
                                   !._state = 1]]
                 ELSE _handle_error(w)
            ELSE _handle_error(w)
    IN  [handled EXCEPT !.self._state_attributes =
            SetItem(@, "test", <<"t", "e", "s", "t">>)]

(***************************************************************************)
(* One iteration of the loop of async_http_get_with_retries, given the     *)
(* answer r to the GET of attempt `retry`: the call returns a value,       *)
(* sleeps before the next attempt, or lets an exception escape.  Only      *)
(* aiohttp.ClientError is caught; ContentTypeError is a ClientError,       *)
(* asyncio.TimeoutError and json.JSONDecodeError are not.                  *)
(***************************************************************************)
IsClientError(r) ==
    \/ r.exc = "ClientError"
    \/ r.exc = "" /\ r.status = 200 /\ r.json.type = "ContentTypeError"

Escapes(r) ==
    \/ r.exc = "TimeoutError"
    \/ r.exc = "" /\ r.status = 200 /\ r.json.type = "JSONDecodeError"

\* async_http_get_with_retries that retries a bad status like a ClientError
async_http_get_with_retries_all(retry, r) ==
    IF Escapes(r) THEN [kind |-> "raise", data |-> PyNone, delay |-> 0]
    ELSE IF IsClientError(r) \/ r.status # 200
         THEN IF retry + 1 < retries
              THEN [kind |-> "sleep", data |-> PyNone, delay |-> 2 ^ retry]
              ELSE [kind |-> "return", data |-> PyNone, delay |-> 0]
         ELSE [kind |-> "return", data |-> r.json, delay |-> 0]

async_http_get_with_retries(retry, r) ==
    IF Escapes(r) THEN [kind |-> "raise", data |-> PyNone, delay |-> 0]
    ELSE IF IsClientError(r)
         THEN IF retry + 1 < retries
              THEN [kind |-> "sleep", data |-> PyNone, delay |-> 2 ^ retry]
              ELSE [kind |-> "return", data |-> PyNone, delay |-> 0]
         ELSE IF r.status = 200
              THEN [kind |-> "return", data |-> r.json, delay |-> 0]
              ELSE [kind |-> "return", data |-> PyNone, delay |-> 0]

\* async_http_check_online: True, False, or the exception that escapes
async_http_check_online(r) ==
    IF r.exc = "TimeoutError" THEN [kind |-> "raise", online |-> FALSE]
    ELSE IF r.exc = "ClientError" THEN [kind |-> "return", online |-> FALSE]
    ELSE [kind |-> "return", online |-> r.status = 200]

\* async_check_online_status with its test inverted (== for !=)
async_check_online_status_inverted(w, online) ==
    IF is_online(w.self) = online
    THEN async_update_online_status(w, online)
    ELSE w

\* async_check_online_status without its test: every probe result is applied
async_check_online_status_always(w, online) ==
    async_update_online_status(w, online)

\* the body of the loop of async_check_online_status, after the probe
async_check_online_status(w, online) ==
    IF is_online(w.self) # online
    THEN async_update_online_status(w, online)
    ELSE w

(***************************************************************************)
(* The state machine.                                                      *)
(***************************************************************************)
World == [self |-> sensor, loop |-> timers]

\* where a suspended async_update waits: in the GET of attempt `retry`, or
\* in the asyncio.sleep that follows it
Get(retry) == [pc |-> "get", retry |-> retry]
Sleep(retry) == [pc |-> "sleep", retry |-> retry]
Attempts == 0..(retries - 1)

\* the model's caps on what the code leaves unbounded
Bounded(w) ==
    /\ w.self._error_counter <= MaxErrors
    /\ w.loop.held + w.loop.lost <= MaxTimers

Event(op, data, probe) ==
    [op |-> op, data |-> data, probe |-> probe, was |-> sensor._online]

\* one more failed data poll
Failed == IF failed < _max_errors THEN failed + 1 ELSE failed

\* number of HTTP requests to the sensor's endpoint in flight
InFlight ==
    BagCardinality([st \in {x \in BagToSet(polls) : x.pc = "get"} |-> polls[st]])
        + (IF checking THEN 1 ELSE 0)

\* no call of async_http_get_with_retries is followed
NoCall == [pc |-> "none", retry |-> 0, script |-> <<>>, waits |-> <<>>,
           data |-> PyNone]

\* CustomScreenSensor.__init__, with no coroutine started and no timer set
Constructed ==
    /\ sensor = [_state |-> None,
                 _state_attributes |-> [k \in {} |-> <<>>],
                 _online |-> FALSE,
                 _error_counter |-> 0,
                 _offline_delay |-> None]
    /\ timers = [held |-> 0, lost |-> 0]
    /\ polls = EmptyBag
    /\ checking = FALSE
    /\ last = [op |-> "init", data |-> PyNone, probe |-> FALSE, was |-> FALSE]
    /\ failed = 0

Init ==
    /\ Constructed
    /\ call = NoCall
    /\ healthy = FALSE

\* async_update_sensors fires while the sensor is offline
PollOffline ==
    /\ ~sensor._online
    /\ sensor' = async_update_offline(sensor)
    /\ last' = Event("poll_offline", PyNone, FALSE)
    /\ UNCHANGED <<timers, polls, checking, failed>>
    /\ UNCHANGED aux

\* async_update_sensors fires while the sensor is online: the first GET
PollStart ==
    /\ sensor._online
    /\ BagCardinality(polls) < MaxPolls
    /\ polls' = polls (+) SetToBag({Get(0)})
    /\ last' = Event("poll_start", PyNone, FALSE)
    /\ UNCHANGED <<sensor, timers, checking, failed>>
    /\ UNCHANGED aux

\* the GET of a data poll is answered and the call returns to async_update
PollReturn(retry, r) ==
    LET step == async_http_get_with_retries(retry, r)
        w == async_update_data(World, step.data)
    IN  /\ BagIn(Get(retry), polls)
        /\ step.kind = "return"
        /\ Bounded(w)
        /\ sensor' = w.self
        /\ timers' = w.loop
        /\ polls' = polls (-) SetToBag({Get(retry)})
        /\ last' = Event(IF step.data.type = "list" THEN "poll_list"
                         ELSE "poll_error", step.data, FALSE)
        /\ failed' = IF step.data.type = "list" THEN 0 ELSE Failed
        /\ UNCHANGED checking
        /\ UNCHANGED aux

\* the GET fails with a ClientError and attempts are left: asyncio.sleep
PollSleep(retry, r) ==
    /\ BagIn(Get(retry), polls)
    /\ async_http_get_with_retries(retry, r).kind = "sleep"
    /\ polls' = (polls (-) SetToBag({Get(retry)})) (+) SetToBag({Sleep(retry)})
    /\ last' = Event("poll_sleep", PyNone, FALSE)
    /\ UNCHANGED <<sensor, timers, checking, failed>>
    /\ UNCHANGED aux

\* the sleep ends: the next attempt's GET
PollRetry(retry) ==
    /\ BagIn(Sleep(retry), polls)
    /\ polls' = (polls (-) SetToBag({Sleep(retry)})) (+) SetToBag({Get(retry + 1)})
    /\ last' = Event("poll_retry", PyNone, FALSE)
    /\ UNCHANGED <<sensor, timers, checking, failed>>
    /\ UNCHANGED aux

\* an exception escapes async_http_get_with_retries and async_update
PollRaise(retry, r) ==
    /\ BagIn(Get(retry), polls)
    /\ async_http_get_with_retries(retry, r).kind = "raise"
    /\ polls' = polls (-) SetToBag({Get(retry)})
    /\ last' = Event("poll_raise", PyNone, FALSE)
    /\ failed' = Failed
    /\ UNCHANGED <<sensor, timers, checking>>
    /\ UNCHANGED aux

\* async_check_online_status fires: the probe's GET.  The probe gives up
\* after 5 s and the callback fires every ONLINE_CHECK_INTERVAL = 10 s, so
\* no two of its probes are in flight together.
CheckStart ==
    /\ ~checking
    /\ checking' = TRUE
    /\ last' = Event("check_start", PyNone, FALSE)
    /\ UNCHANGED <<sensor, timers, polls, failed>>
    /\ UNCHANGED aux

\* the probe is answered and async_check_online_status runs to its end
CheckReturn(r) ==
    LET probe == async_http_check_online(r)
        w == async_check_online_status(World, probe.online)
    IN  /\ checking
        /\ probe.kind = "return"
        /\ Bounded(w)
        /\ sensor' = w.self
        /\ timers' = w.loop
        /\ checking' = FALSE
        /\ last' = Event("check", PyNone, probe.online)
        /\ UNCHANGED <<polls, failed>>
        /\ UNCHANGED aux

\* the probe times out: the exception escapes async_check_online_status
CheckRaise(r) ==
    /\ checking
    /\ async_http_check_online(r).kind = "raise"
    /\ checking' = FALSE
    /\ last' = Event("check_raise", PyNone, FALSE)
    /\ UNCHANGED <<sensor, timers, polls, failed>>
    /\ UNCHANGED aux

(***************************************************************************)
(* A call_later timer expires.  Its callback is the coroutine function     *)
(* self.async_check_online: the loop calls it, which only creates a        *)
(* coroutine object, and drops what it returns.  The body of               *)
(* async_check_online never runs: no probe, no change of the sensor.       *)
(***************************************************************************)
TimerFireHeld ==
    /\ timers.held = 1
    /\ timers' = [timers EXCEPT !.held = 0]
    /\ last' = Event("timer", PyNone, FALSE)
    /\ UNCHANGED <<sensor, polls, checking, failed>>
    /\ UNCHANGED aux

TimerFireLost ==
    /\ timers.lost > 0
    /\ timers' = [timers EXCEPT !.lost = @ - 1]
    /\ last' = Event("timer", PyNone, FALSE)
    /\ UNCHANGED <<sensor, polls, checking, failed>>
    /\ UNCHANGED aux

Next ==
    \/ PollOffline
    \/ PollStart
    \/ \E retry \in Attempts, r \in Responses : PollReturn(retry, r)
    \/ \E retry \in Attempts, r \in Responses : PollSleep(retry, r)
    \/ \E retry \in Attempts : PollRetry(retry)
    \/ \E retry \in Attempts, r \in Responses : PollRaise(retry, r)
    \/ CheckStart
    \/ \E r \in ProbeResponses : CheckReturn(r)
    \/ \E r \in ProbeResponses : CheckRaise(r)
    \/ TimerFireHeld
    \/ TimerFireLost

Spec == Init /\ [][Next]_vars

(***************************************************************************)
(* One call of async_http_get_with_retries, followed alone.  The answers   *)
(* the network gives to its attempts are drawn beforehand: script[k + 1]   *)
(* answers the GET of attempt k.                                           *)
(*   pc    : "get" (a GET is in flight), "sleep" (in asyncio.sleep),       *)
(*           "returned", "raised"                                          *)
(*   retry : the loop variable; retry + 1 GETs have been issued            *)
(*   waits : the delays slept so far, in seconds                           *)
(*   data  : the value returned                                            *)
(***************************************************************************)
Scripts == [1..retries -> Responses]

Answer == call.script[call.retry + 1]

GetInit ==
    /\ Constructed
    /\ healthy = FALSE
    /\ call \in {[pc |-> "get", retry |-> 0, script |-> sc, waits |-> <<>>,
                  data |-> PyNone] : sc \in Scripts}

main == <<sensor, timers, polls, checking, last, failed, healthy>>

\* the attempt's answer makes the call return
GetReturn ==
    LET step == async_http_get_with_retries(call.retry, Answer)
    IN  /\ call.pc = "get"
        /\ step.kind = "return"
        /\ call' = [call EXCEPT !.pc = "returned", !.data = step.data]
        /\ UNCHANGED main

\* the attempt fails with a ClientError and the call sleeps
GetSleep ==
    LET step == async_http_get_with_retries(call.retry, Answer)
    IN  /\ call.pc = "get"
        /\ step.kind = "sleep"
        /\ call' = [call EXCEPT !.pc = "sleep",
                                !.waits = Append(@, step.delay)]
        /\ UNCHANGED main

\* the sleep ends: the loop's next iteration issues its GET
GetWake ==
    /\ call.pc = "sleep"
    /\ call' = [call EXCEPT !.pc = "get", !.retry = @ + 1]
    /\ UNCHANGED main

\* the attempt's answer raises what the call does not catch
GetRaise ==
    /\ call.pc = "get"
    /\ async_http_get_with_retries(call.retry, Answer).kind = "raise"
    /\ call' = [call EXCEPT !.pc = "raised"]
    /\ UNCHANGED main

GetNext == GetReturn \/ GetSleep \/ GetWake \/ GetRaise

GetSpec == GetInit /\ [][GetNext]_vars

(***************************************************************************)
(* The sensor with a device that, from some moment on (Heal), answers      *)
(* every GET, those in flight included, with 200 and a JSON list.  The     *)
(* host fires the periodic callbacks again and again, every request is     *)
(* answered or times out, every sleep and every timer ends: each action    *)
(* is weakly fair.                                                         *)
(***************************************************************************)
OkResponses ==
    {r \in Responses : r.exc = "" /\ r.status = 200 /\ r.json.type = "list"}

Answers == IF healthy THEN OkResponses ELSE Responses

ProbeAnswers ==
    IF healthy THEN {r \in ProbeResponses : r.exc = "" /\ r.status = 200}
    ELSE ProbeResponses

Heal ==
    /\ ~healthy
    /\ healthy' = TRUE
    /\ UNCHANGED <<sensor, timers, polls, checking, last, failed, call>>

LiveNext ==
    \/ Heal
    \/ PollOffline
    \/ PollStart
    \/ \E retry \in Attempts, r \in Answers : PollReturn(retry, r)
    \/ \E retry \in Attempts, r \in Answers : PollSleep(retry, r)
    \/ \E retry \in Attempts : PollRetry(retry)
    \/ \E retry \in Attempts, r \in Answers : PollRaise(retry, r)
    \/ CheckStart
    \/ \E r \in ProbeAnswers : CheckReturn(r)
    \/ \E r \in ProbeAnswers : CheckRaise(r)
    \/ TimerFireHeld
    \/ TimerFireLost

Fairness ==
    /\ WF_vars(PollOffline)
    /\ WF_vars(PollStart)
    /\ WF_vars(\E retry \in Attempts, r \in Answers : PollReturn(retry, r))
    /\ WF_vars(\E retry \in Attempts, r \in Answers : PollSleep(retry, r))
    /\ WF_vars(\E retry \in Attempts : PollRetry(retry))
    /\ WF_vars(\E retry \in Attempts, r \in Answers : PollRaise(retry, r))
    /\ WF_vars(CheckStart)
    /\ WF_vars(\E r \in ProbeAnswers : CheckReturn(r))
    /\ WF_vars(\E r \in ProbeAnswers : CheckRaise(r))
    /\ WF_vars(TimerFireHeld)
    /\ WF_vars(TimerFireLost)

LiveSpec == Init /\ [][LiveNext]_vars /\ Fairness

(***************************************************************************)
(* Properties.                                                             *)
(***************************************************************************)
Attr(k) == sensor._state_attributes[k]
HasAttr(k) == k \in DOMAIN sensor._state_attributes
Pending == timers.held + timers.lost
OfflineScreen == json_dumps(ALL_SCREEN_DATA.offline)

\* C1: once three data polls in a row have failed, with no successful poll
\* in between, the sensor is offline and its state is 0.
C1_ThreeFailuresOffline ==
    (last.op \in {"poll_error", "poll_raise"} /\ failed >= 3)
        => (~sensor._online /\ sensor._state = 0)

\* C2: whenever a step takes the online flag from true to false, the error
\* counter is at least _max_errors (3) after that step.
C2_OfflineOnlyAtThreshold ==
    (last.was /\ ~sensor._online) => sensor._error_counter >= _max_errors

C2_Witness ==
    /\ last.op = "poll_error"
    /\ last.was
    /\ ~sensor._online
    /\ sensor._error_counter = _max_errors

\* C3: when a data poll receives HTTP 200 with a list, then at its end the
\* error counter is 0, the state is 1 and "screen" is the JSON text of that
\* list.
C3_SuccessfulPoll ==
    last.op = "poll_list" =>
        /\ sensor._error_counter = 0
        /\ sensor._state = 1
        /\ HasAttr("screen")
        /\ Attr("screen") = json_dumps(last.data.value)

C3_Witness ==
    /\ last.op = "poll_list"
    /\ last.data.value = <<255>>
    /\ Attr("screen") = <<"[", "2", "5", "5", "]">>

\* C4: whenever the sensor is offline, "screen" is the JSON text of the
\* offline frame.
C4_OfflineScreenIsFallback ==
    ~sensor._online => (HasAttr("screen") /\ Attr("screen") = OfflineScreen)

\* C5: the state is 0 whenever the sensor is offline, and 1 only when it is
\* online.
C5_StateFollowsOnline ==
    /\ ~sensor._online => sensor._state = 0
    /\ sensor._state = 1 => sensor._online

\* C6: a step that takes the sensor offline schedules a recheck timer, and a
\* recheck timer that fires issues one liveness probe.
C6_RecheckProbes ==
    [][/\ (sensor._online /\ ~sensor'._online) =>
              timers'.held + timers'.lost = timers.held + timers.lost + 1
       /\ last'.op = "timer" => InFlight' = InFlight + 1]_vars

\* C7: once a successful probe has brought an offline sensor back online,
\* the sensor is online, its state is None and no recheck timer is pending.
C7_OnlineCancelsRechecks ==
    (last.op = "check" /\ last.probe /\ ~last.was) =>
        /\ sensor._online
        /\ sensor._state = None
        /\ Pending = 0

\* C8: at most one HTTP request of the sensor is in flight.
C8_OneRequestInFlight == InFlight <= 1

\* C9: at most one recheck timer is pending, and _offline_delay refers to it.
C9_OneRecheckTimer ==
    /\ Pending <= 1
    /\ timers.lost = 0
    /\ timers.held = 1 => sensor._offline_delay = TimerHandle

\* C10, as claimed: after a periodic check whose probe result differs from
\* the online flag, the online flag equals the probe result.
C10_FlagEqualsProbe ==
    (last.op = "check" /\ last.probe # last.was) => sensor._online = last.probe

\* C10, amended: after such a check, a successful probe has made the sensor
\* online; a failed probe has been counted, and the sensor is offline
\* exactly when the counter has reached _max_errors.
C10_Reconciles ==
    (last.op = "check" /\ last.probe # last.was) =>
        IF last.probe
        THEN sensor._online /\ sensor._state = None
        ELSE /\ sensor._error_counter >= 1
             /\ sensor._online <=> sensor._error_counter < _max_errors

C10_Witness ==
    /\ last.op = "check"
    /\ last.was
    /\ ~last.probe
    /\ sensor._online
    /\ sensor._error_counter = 1

\* C11: a data poll that starts while the sensor is offline issues no
\* request and changes nothing but the "screen" attribute, which it sets to
\* the offline frame: online flag, state, error counter, recheck handle,
\* other attributes and pending timers are as before.
C11_OfflinePollFrame ==
    [][last'.op = "poll_offline" =>
          /\ ~sensor._online
          /\ InFlight' = InFlight
          /\ polls' = polls
          /\ timers' = timers
          /\ sensor'._online = sensor._online
          /\ sensor'._state = sensor._state
          /\ sensor'._error_counter = sensor._error_counter
          /\ sensor'._offline_delay = sensor._offline_delay
          /\ DOMAIN sensor'._state_attributes =
                 DOMAIN sensor._state_attributes \cup {"screen"}
          /\ sensor'._state_attributes["screen"] = OfflineScreen
          /\ \A k \in DOMAIN sensor._state_attributes \ {"screen"} :
                 sensor'._state_attributes[k] = sensor._state_attributes[k]]_vars

C11_Witness ==
    /\ last.op = "poll_offline"
    /\ ~sensor._online
    /\ sensor._state = None
    /\ sensor._error_counter = 0
    /\ Attr("screen") = OfflineScreen

\* C17: a periodic check whose probe result equals the online flag changes
\* nothing on the sensor and schedules or cancels no timer.
C17_AgreeingCheckFrame ==
    [][(last'.op = "check" /\ last'.probe = last'.was) =>
          (sensor' = sensor /\ timers' = timers)]_vars

C17_Witness ==
    /\ last.op = "check"
    /\ ~last.probe
    /\ ~last.was
    /\ ~sensor._online
    /\ sensor._error_counter = _max_errors
    /\ Pending = 0

\* C12: every data poll of an online sensor that fails ends normally, with
\* the failure handler called once: the error counter is one more than
\* before the poll's last step, and no exception leaves async_update.
C12_FailedPollCounted ==
    [][last'.op \in {"poll_error", "poll_raise"} =>
          /\ last'.op = "poll_error"
          /\ sensor'._error_counter = sensor._error_counter + 1]_vars

\* C14: right after the sensor has come back online, three further failures
\* are needed to reach the threshold: the error counter counts no failure
\* from before the recovery.
C14_RecoveryRestartsCount ==
    (last.op = "check" /\ last.probe /\ ~last.was) =>
        _max_errors - sensor._error_counter >= 3

\* the answer to the call's last attempt is a failure: an exception, a
\* status other than 200, or a body that response.json() cannot give
FailedAnswer ==
    \/ Answer.exc # ""
    \/ Answer.status # 200
    \/ Answer.json \in JsonRaises

\* C13: a call of async_http_get_with_retries makes at most 3 attempts and
\* ends by returning; it waits 1 s after the first failed attempt, 2 s after
\* the second and not after the third; and it returns a failure only once
\* the attempts are exhausted.
C13_BoundedBackoff ==
    /\ call.retry + 1 <= retries
    /\ call.pc # "raised"
    /\ Len(call.waits) <= retries - 1
    /\ \A i \in DOMAIN call.waits : call.waits[i] = 2 ^ (i - 1)
    /\ (call.pc = "returned" /\ FailedAnswer) => call.retry + 1 = retries

\* C16: only connection errors are retried: an answer with a status other
\* than 200 ends the call at once with None, and an answer with status 200
\* ends the call at once with the body.
C16_OnlyConnectionErrorsRetried ==
    call.pc \in {"sleep", "returned", "raised"} =>
        /\ call.pc = "sleep" => Answer.exc = "ClientError"
        /\ (Answer.exc = "" /\ Answer.status # 200) =>
               (call.pc = "returned" /\ call.data = PyNone)
        /\ (Answer.exc = "" /\ Answer.status = 200) =>
               (call.pc = "returned" /\ call.data = Answer.json)

\* C16, amended: what is retried is aiohttp.ClientError, raised by the GET
\* (a connection error) or by response.json() on a 200 answer
\* (ContentTypeError); an answer with a status other than 200 ends the call
\* at once with None; a 200 answer whose body decodes ends it at once with
\* the decoded body; a 200 answer whose body is not valid JSON ends it at
\* once with the JSONDecodeError.
C16_ClientErrorsRetried ==
    call.pc \in {"sleep", "returned", "raised"} =>
        /\ call.pc = "sleep" =>
               \/ Answer.exc = "ClientError"
               \/ /\ Answer.exc = ""
                  /\ Answer.status = 200
                  /\ Answer.json.type = "ContentTypeError"
        /\ (Answer.exc = "" /\ Answer.status # 200) =>
               (call.pc = "returned" /\ call.data = PyNone)
        /\ (Answer.exc = "" /\ Answer.status = 200 /\ Answer.json \in JsonValues) =>
               (call.pc = "returned" /\ call.data = Answer.json)
        /\ (Answer.exc = "" /\ Answer.status = 200
                /\ Answer.json.type = "JSONDecodeError") =>
               call.pc = "raised"

C16_Witness ==
    /\ call.pc = "returned"
    /\ call.retry = 0
    /\ call.waits = <<>>
    /\ Answer.exc = ""
    /\ Answer.status = 500
    /\ call.data = PyNone

\* the sensor is online, its state is 1 and "screen" shows a device payload
ShowsDevice ==
    /\ sensor._online
    /\ sensor._state = 1
    /\ HasAttr("screen")
    /\ Attr("screen") \in {json_dumps(l) : l \in Lists}

\* C15: once the device answers every request with 200 and a JSON list, the
\* sensor eventually is online with state 1 and the device's payload in
\* "screen", and stays so.
C15_EventuallyOnline == [](healthy => <>[]ShowsDevice)

C15_Witness ==
    /\ healthy
    /\ ShowsDevice
    /\ last.op = "poll_list"
    /\ last.was
    /\ sensor._error_counter = 0

=============================================================================
